---- MODULE Spec2Model ----
(***************************************************************************)
(* Model of blockly-local-variable: the DeclarationList registry           *)
(* (declaration_list.ts, kept in src/README.md from line 23 on) and the    *)
(* parts of DeclarationListBuilder (src/src/builder.ts) that read it.      *)
(* The Blockly workspace / block tree is the environment: the model keeps  *)
(* the blocks the host created, their parent links and their fields.       *)
(***************************************************************************)
EXTENDS Integers, Sequences, FiniteSets, TLC

\* ------------------------------------------------------------------ bounds
MaxBlocks == 2      \* blocks the host creates over one run
MaxPrims == 2       \* primitive entries seeded over one run

\* ------------------------------------------------------- program constants
max_iter == 100     \* const max_iter = 100

\* ------------------------------------------------------------ value spaces
AllIds == <<"a", "b", "c", "d", "e">>
AllWs == <<"w1", "w2", "w3">>
Ids == {AllIds[k] : k \in 1..MaxBlocks}
Ws == {AllWs[1], AllWs[2]}

EmptyId == ""                 \* id of a primitive entry
NoWs == ""                    \* wid of a primitive entry; workspace of a disposed block
FlyoutWs == "flyout"          \* the toolbox flyout's own workspace
Undefined == "<undefined>"    \* a property that is absent (name of a block-backed entry)
NullField == "<null>"         \* getFieldValue of a field the block does not have
ProbeId == "<probe>"          \* id of a block that is no declaration block
NoParent == ""                \* getParent() === null
Cyclic == 0 - 1               \* depth of a chain of ancestors that loops

PrimNames == {"PI", "", Undefined}
ReadonlyValues == {"TRUE", "FALSE", NullField}

\* position of an identifier in render order (getChildren(true) / getTopBlocks(true))
Pos(i) == CHOOSE k \in 1..Len(AllIds) : AllIds[k] = i

\* type Declaration = {id, wid, name?}
Declaration(i, w, n) == [id |-> i, wid |-> w, name |-> n]

VARIABLES
    list,       \* DeclarationList.list: the registry
    wsAlive,    \* host: workspaces Blockly.Workspace.getById finds
    blocks,     \* host: <<workspace, id>> -> [parent, readonly] of the live blocks
    created,    \* host: number of blocks created so far
    call        \* the last operation: its arguments and what it returned

vars == <<list, wsAlive, blocks, created, call>>

Live == DOMAIN blocks
LiveIn(w) == {b[2] : b \in {x \in Live : x[1] = w}}

NoCall == [op |-> "none"]

Init ==
    /\ list = <<>>
    /\ wsAlive = Ws
    /\ blocks = <<>>
    /\ created = 0
    /\ call = NoCall

\* ------------------------------------------------------------- host model
\* Blockly.Workspace.getById(wid) finds a workspace; getBlockById(id) finds a block
WorkspaceExists(w) == w \in wsAlive
BlockExists(w, i) == <<w, i>> \in Live

\* block.getParent() of a live block: the parent's id, NoParent for none
ParentId(w, i) == blocks[<<w, i>>].parent

\* ids in render order
Ordered(S) == SelectSeq(AllIds, LAMBDA i : i \in S)

\* the live children of p in render order (p = NoParent: the top blocks)
ChildIds(w, p) == Ordered({i \in LiveIn(w) : ParentId(w, i) = p})

\* every block below the blocks of S (S included)
RECURSIVE Descendants(_, _, _)
Descendants(w, S, n) ==
    IF n = 0 THEN S
    ELSE Descendants(w, S \cup {i \in LiveIn(w) : ParentId(w, i) \in S}, n - 1)

\* the user drops a new block below p (or on the workspace), after the blocks
\* already there
HostCreateBlock(w, i, p, ro) ==
    /\ created < MaxBlocks
    /\ w \in wsAlive
    /\ i \in Ids
    /\ \A j \in LiveIn(w) : Pos(j) < Pos(i)
    /\ p \in {NoParent} \cup LiveIn(w)
    /\ blocks' = [b \in Live \cup {<<w, i>>} |->
                    IF b = <<w, i>> THEN [parent |-> p, readonly |-> ro] ELSE blocks[b]]
    /\ created' = created + 1
    /\ call' = NoCall
    /\ UNCHANGED <<list, wsAlive>>

\* block.dispose(): the block and everything below it leave the workspace
HostDisposeBlock(w, i) ==
    /\ <<w, i>> \in Live
    /\ LET gone == Descendants(w, {i}, MaxBlocks)
       IN blocks' = [b \in {x \in Live : ~(x[1] = w /\ x[2] \in gone)} |-> blocks[b]]
    /\ call' = NoCall
    /\ UNCHANGED <<list, wsAlive, created>>

\* workspace.dispose(): Blockly.Workspace.getById no longer finds it
HostDisposeWorkspace(w) ==
    /\ w \in wsAlive
    /\ wsAlive' = wsAlive \ {w}
    /\ blocks' = [b \in {x \in Live : x[1] # w} |-> blocks[b]]
    /\ call' = NoCall
    /\ UNCHANGED <<list, created>>

\* the user toggles the "readonly" checkbox of a declaration block
HostSetReadonly(w, i, ro) ==
    /\ <<w, i>> \in Live
    /\ blocks[<<w, i>>].readonly \in {"TRUE", "FALSE"}
    /\ ro \in {"TRUE", "FALSE"}
    /\ ro # blocks[<<w, i>>].readonly
    /\ blocks' = [blocks EXCEPT ![<<w, i>>].readonly = ro]
    /\ call' = NoCall
    /\ UNCHANGED <<list, wsAlive, created>>

\* ------------------------------------------- the block a query is made from
\* Either a live block, or a probe: a getter/setter block that is no declaration
\* block, hanging `depth` single-child blocks below `under` (NoParent: below the
\* workspace's top level), its chain listed at `slot` among the children there
\* (slot -1: not listed yet). depth = Cyclic: its ancestors form a loop.
Real(i) == [k |-> "real", id |-> i, j |-> 0]
Chain(j) == [k |-> "chain", id |-> ProbeId, j |-> j]
Null == [k |-> "null", id |-> "", j |-> 0]

BlockArg(w, i) == [kind |-> "block", ws |-> w, id |-> i, under |-> NoParent, slot |-> 0, depth |-> 0]
ProbeArg(w, u, s, d) == [kind |-> "probe", ws |-> w, id |-> ProbeId, under |-> u, slot |-> s, depth |-> d]

\* the probes of workspace w with their chain depth in D
Probes(w, D) ==
    UNION { {ProbeArg(w, u, s, d) : s \in (0 - 1)..Len(ChildIds(w, u)), d \in D}
            : u \in {NoParent} \cup LiveIn(w) }

CyclicProbe(w) == ProbeArg(w, NoParent, 0 - 1, Cyclic)

LiveArgs == {BlockArg(b[1], b[2]) : b \in Live}

ShallowDepths == {0, 1}
DeepDepths == {max_iter - 1, max_iter}

QueryBlock(q) == IF q.kind = "block" THEN Real(q.id) ELSE Chain(0)

\* block.getParent()
GetParent(q, node) ==
    IF node.k = "real"
    THEN LET p == ParentId(q.ws, node.id) IN IF p = NoParent THEN Null ELSE Real(p)
    ELSE IF q.depth = Cyclic THEN Chain((node.j % 2) + 1)
    ELSE IF node.j < q.depth THEN Chain(node.j + 1)
    ELSE IF q.under = NoParent THEN Null ELSE Real(q.under)

InsertAt(s, k, x) == SubSeq(s, 1, k) \o <<x>> \o SubSeq(s, k + 1, Len(s))

Listed(q, ids, p) ==
    LET base == [n \in 1..Len(ids) |-> Real(ids[n])]
    IN IF q.kind = "probe" /\ q.depth # Cyclic /\ q.slot >= 0 /\ q.under = p
       THEN InsertAt(base, q.slot, Chain(q.depth))
       ELSE base

\* parent.getChildren(true)
GetChildren(q, node) ==
    IF node.k = "real" THEN Listed(q, ChildIds(q.ws, node.id), node.id)
    ELSE IF q.depth = Cyclic
         THEN (IF node.j = 1 THEN <<Chain(0), Chain(2)>> ELSE <<Chain(1)>>)
    ELSE <<Chain(node.j - 1)>>

\* block.workspace.getTopBlocks(true)
GetTopBlocks(q) == Listed(q, ChildIds(q.ws, NoParent), NoParent)

\* ------------------------------------------------------------ the registry
\* this.list.find(value => value.id === id) is truthy
ListHasId(l, i) == \E n \in 1..Len(l) : l[n].id = i

\* blocks.indexOf(block): 0-based, -1 when absent
IndexOf(s, x) ==
    IF \E n \in 1..Len(s) : s[n] = x
    THEN (CHOOSE n \in 1..Len(s) : s[n] = x /\ \A m \in 1..(n - 1) : s[m] # x) - 1
    ELSE 0 - 1

\* a filter that leaves the current block itself out (i < index)
LevelKeep_Before(l, blks, index, n) ==
    /\ ((n - 1) < index \/ index = 0 - 1)
    /\ ListHasId(l, blks[n].id)

\* the filter of one level: (i <= index || index === -1) && this.list.find(...)
LevelKeep(l, blks, index, n) ==
    /\ ((n - 1) <= index \/ index = 0 - 1)
    /\ ListHasId(l, blks[n].id)

RECURSIVE LevelVarsFrom(_, _, _, _, _)
LevelVarsFrom(l, w, blks, index, n) ==
    IF n > Len(blks) THEN <<>>
    ELSE (IF LevelKeep(l, blks, index, n)
          THEN <<Declaration(blks[n].id, w, Undefined)>> ELSE <<>>)
         \o LevelVarsFrom(l, w, blks, index, n + 1)

\* const vars = blocks.filter(...).map(b => {id: b.id, wid: b.workspace.id})
LevelVars(l, w, blks, block) == LevelVarsFrom(l, w, blks, IndexOf(blks, block), 1)

\* one pass of the loop body: what result.push(...vars) appends
LoopBody(q, block, parent) ==
    LET blks == IF parent # Null THEN GetChildren(q, parent) ELSE GetTopBlocks(q)
    IN LevelVars(list, q.ws, blks, block)

\* the loop with result.unshift(...vars): outer levels first
RECURSIVE Passes_OuterFirst(_, _, _, _, _)
Passes_OuterFirst(q, iter, block, parent, stop) ==
    IF iter >= stop
    THEN [iter |-> iter, block |-> block, parent |-> parent, broke |-> FALSE, result |-> <<>>]
    ELSE LET pushed == LoopBody(q, block, parent)
         IN IF parent = Null
            THEN [iter |-> iter, block |-> parent, parent |-> parent, broke |-> TRUE, result |-> pushed]
            ELSE LET rest == Passes_OuterFirst(q, iter + 1, parent, GetParent(q, parent), stop)
                 IN [rest EXCEPT !.result = rest.result \o pushed]

\* for(iter=0;iter<max_iter;iter++){...; block=parent; if(block==null) break;
\* parent=block.getParent();} from pass `iter` up to pass `stop`: what the passes
\* push, and iter, block, parent where they leave off
RECURSIVE Passes(_, _, _, _, _)
Passes(q, iter, block, parent, stop) ==
    IF iter >= stop
    THEN [iter |-> iter, block |-> block, parent |-> parent, broke |-> FALSE, result |-> <<>>]
    ELSE LET pushed == LoopBody(q, block, parent)
         IN IF parent = Null
            THEN [iter |-> iter, block |-> parent, parent |-> parent, broke |-> TRUE, result |-> pushed]
            ELSE LET rest == Passes(q, iter + 1, parent, GetParent(q, parent), stop)
                 IN [rest EXCEPT !.result = pushed \o rest.result]

\* The whole loop, run as stretches of WalkStretch passes so that a walk of
\* max_iter levels nests only a few evaluations deep.
WalkStretch == max_iter \div 10

RECURSIVE Walk(_, _, _, _)
Walk(q, iter, block, parent) ==
    LET stop == IF iter + WalkStretch < max_iter THEN iter + WalkStretch ELSE max_iter
        some == Passes(q, iter, block, parent, stop)
    IN IF some.broke \/ some.iter >= max_iter THEN some
       ELSE LET rest == Walk(q, some.iter, some.block, some.parent)
            IN [rest EXCEPT !.result = some.result \o rest.result]

\* getAccessibleDeclarations without its shortcut for a block with no parent
GetAccessibleDeclarationsOf_NoShortcut(q) ==
    LET block == QueryBlock(q)
        w == Walk(q, 0, block, GetParent(q, block))
    IN [iter |-> w.iter, result |-> IF w.iter >= max_iter THEN list ELSE w.result]

\* getAccessibleDeclarations without the fallback after max_iter passes
GetAccessibleDeclarationsOf_NoFallback(q) ==
    LET block == QueryBlock(q)
        parent == GetParent(q, block)
    IN IF parent = Null THEN [iter |-> 0, result |-> list]
       ELSE LET w == Walk(q, 0, block, parent)
            IN [iter |-> w.iter, result |-> w.result]

\* getAccessibleDeclarations(block): what it returns, and the loop counter at exit
GetAccessibleDeclarationsOf(q) ==
    LET block == QueryBlock(q)
        parent == GetParent(q, block)
    IN IF parent = Null THEN [iter |-> 0, result |-> list]
       ELSE LET w == Walk(q, 0, block, parent)
            IN [iter |-> w.iter, result |-> IF w.iter >= max_iter THEN list ELSE w.result]

GetAccessibleDeclarations(q) ==
    /\ q.ws \in wsAlive
    /\ LET r == GetAccessibleDeclarationsOf(q)
       IN call' = [op |-> "getAccessibleDeclarations", arg |-> q,
                   result |-> r.result, iter |-> r.iter]
    /\ UNCHANGED <<list, wsAlive, blocks, created>>

\* the primitive entries: id empty, a name or none
PrimitiveEntries == {Declaration(EmptyId, NoWs, n) : n \in PrimNames}

\* the batches of one or two entries of E
Batches(E) == {<<e>> : e \in E} \cup {<<e, f>> : e \in E, f \in E}

\* the batches of one or two primitives named in N
SeedBatches(N) == Batches({Declaration(EmptyId, NoWs, n) : n \in N})

\* entries that name a block of workspace w, as addInitialListValues accepts
\* them too: its parameter is Declaration[] and nothing is validated
BlockEntries(w) == {Declaration(i, w, Undefined) : i \in Ids}

NumPrims(l) == Cardinality({n \in 1..Len(l) : l[n].id = EmptyId})

\* addInitialListValues(list): this.list = this.list.concat(list)
AddInitialListValues(entries) ==
    /\ Len(entries) >= 1
    /\ NumPrims(list) + NumPrims(entries) <= MaxPrims
    /\ list' = list \o entries
    /\ call' = [op |-> "addInitialListValues", arg |-> entries, before |-> list]
    /\ UNCHANGED <<wsAlive, blocks, created>>

\* The block object handed to declare: null, a live block of a workspace, a block
\* of the toolbox flyout (isInFlyout), or a block whose workspace is gone.
BlockObject(n, i, w, f) == [isNull |-> n, id |-> i, workspace |-> w, isInFlyout |-> f]

NullBlock == BlockObject(TRUE, EmptyId, NoWs, FALSE)

LiveObjects == {BlockObject(FALSE, b[2], b[1], FALSE) : b \in Live}

DeclareArgs ==
    {NullBlock}
    \cup LiveObjects
    \cup {BlockObject(FALSE, i, FlyoutWs, TRUE) : i \in Ids}
    \cup {BlockObject(FALSE, i, NoWs, FALSE) : i \in Ids}

\* if(!block||block.isInFlyout) return;  if(!workspace) return;
DeclareRejects(block) ==
    \/ block.isNull
    \/ block.isInFlyout
    \/ block.workspace = NoWs

\* a re-registration guard that never finds the block
DeclareKnows_Never(l, block) == FALSE

\* if(this.list.find(({id})=>id===block.id)) return;
DeclareKnows(l, block) == ListHasId(l, block.id)

\* declare without the re-registration guard
DeclareList_Unguarded(l, block) ==
    IF DeclareRejects(block) THEN l
    ELSE Append(l, Declaration(block.id, block.workspace, Undefined))

\* declare that takes blocks of the flyout too
DeclareList_Flyout(l, block) ==
    IF block.isNull \/ block.workspace = NoWs THEN l
    ELSE IF DeclareKnows(l, block) THEN l
    ELSE Append(l, Declaration(block.id, block.workspace, Undefined))

\* declare with this.list.unshift(...): the new entry goes first
DeclareList_Unshift(l, block) ==
    IF DeclareRejects(block) THEN l
    ELSE IF DeclareKnows(l, block) THEN l
    ELSE <<Declaration(block.id, block.workspace, Undefined)>> \o l

\* declare(block): the list it leaves. The samename branch is guarded by a
\* literal false, so every block that reaches it is pushed.
DeclareList(l, block) ==
    IF DeclareRejects(block) THEN l
    ELSE IF DeclareKnows(l, block) THEN l
    ELSE Append(l, Declaration(block.id, block.workspace, Undefined))

Declare(block) ==
    /\ list' = DeclareList(list, block)
    /\ call' = [op |-> "declare", arg |-> block, before |-> list]
    /\ UNCHANGED <<wsAlive, blocks, created>>

\* ---------------------------------------------------------- getCategoryXML
TYPE_NAME_GETTER_ == "LocalVariableGetter"
TYPE_NAME_SETTER_ == "LocalVariableSetter"
TypeNames == {TYPE_NAME_GETTER_, TYPE_NAME_SETTER_}

\* Blockly.Workspace.getById(wid).getBlockById(id): the block's fields, NullField
\* for a block that is gone; the lookup throws when the workspace is gone.
NullObject == [exists |-> FALSE, readonly |-> NullField]
GetBlockById(w, i) ==
    IF BlockExists(w, i) THEN [exists |-> TRUE, readonly |-> blocks[<<w, i>>].readonly]
    ELSE NullObject

\* the filters getCategoryXML is called with
Filters == {"default", "writable", "none"}
ApplyFilter(f, blk) ==
    CASE f = "default" -> blk.exists
      [] f = "writable" -> blk.exists /\ blk.readonly = "FALSE"
      [] f = "none" -> FALSE

\* <block type="TYPE"><field name="name">VALUE</field></block>
BlockXml(t, v) == [type |-> t, name |-> v]

\* if(id==="" && name)
IsPrimitive(e) == e.id = EmptyId /\ e.name # "" /\ e.name # Undefined

\* the forEach of getCategoryXML from entry n on
RECURSIVE CategoryFrom(_, _, _, _)
CategoryFrom(typeName, filter, n, xmlList) ==
    IF n > Len(list) THEN [threw |-> FALSE, xml |-> xmlList]
    ELSE LET e == list[n]
         IN IF IsPrimitive(e)
            THEN CategoryFrom(typeName, filter, n + 1, Append(xmlList, BlockXml(typeName, e.name)))
            ELSE IF ~WorkspaceExists(e.wid)
                 THEN [threw |-> TRUE, xml |-> xmlList]
                 ELSE IF ApplyFilter(filter, GetBlockById(e.wid, e.id))
                      THEN CategoryFrom(typeName, filter, n + 1, Append(xmlList, BlockXml(typeName, e.id)))
                      ELSE CategoryFrom(typeName, filter, n + 1, xmlList)

GetCategoryXMLOf(typeName, filter) == CategoryFrom(typeName, filter, 1, <<>>)

GetCategoryXML(typeName, filter) ==
    /\ typeName \in TypeNames
    /\ filter \in Filters
    /\ LET r == GetCategoryXMLOf(typeName, filter)
       IN call' = [op |-> "getCategoryXML", arg |-> [typeName |-> typeName, filter |-> filter],
                   threw |-> r.threw, result |-> IF r.threw THEN <<>> ELSE r.xml]
    /\ UNCHANGED <<list, wsAlive, blocks, created>>

\* ------------------------------------------------ stackDropdownMenuImpl_
\* block.getOutputShape(): null unless the block was given an output shape. The
\* getter and setter definitions set none, and the value is the host's to
\* give: both outcomes are taken.
NullShape == "<null>"
OutputShapes == {NullShape, "round"}

\* the option of a primitive: [name, name]
PrimitiveOption(e) == [label |-> e.name, value |-> e.name]

\* the option of a block: [block_.getFieldValue("name"), id]
BlockOption(e) == [label |-> [field |-> "name", of |-> e.id], value |-> e.id]

\* block_!==null && (this.isAlwaysReadonly||!isSetter||
\*                   block_.getFieldValue("readonly")!=='FALSE')
DropdownKeeps(blk, isAlwaysReadonly, isSetter) ==
    blk.exists /\ (isAlwaysReadonly \/ ~isSetter \/ blk.readonly # "FALSE")

\* the stack.forEach of the dropdown's option generator from entry n on
RECURSIVE OptionsFrom(_, _, _, _, _)
OptionsFrom(stack, isAlwaysReadonly, isSetter, n, options) ==
    IF n > Len(stack) THEN [threw |-> FALSE, options |-> options]
    ELSE LET e == stack[n]
         IN IF IsPrimitive(e)
            THEN OptionsFrom(stack, isAlwaysReadonly, isSetter, n + 1,
                             Append(options, PrimitiveOption(e)))
            ELSE IF ~WorkspaceExists(e.wid)
                 THEN [threw |-> TRUE, options |-> options]
                 ELSE IF DropdownKeeps(GetBlockById(e.wid, e.id), isAlwaysReadonly, isSetter)
                      THEN OptionsFrom(stack, isAlwaysReadonly, isSetter, n + 1,
                                       Append(options, BlockOption(e)))
                      ELSE OptionsFrom(stack, isAlwaysReadonly, isSetter, n + 1, options)

\* the option generator of the dropdown of a getter or setter block
StackDropdownMenuOf(q, outputShape, isAlwaysReadonly) ==
    LET stack == GetAccessibleDeclarationsOf(q).result
        isSetter == outputShape # NullShape
    IN OptionsFrom(stack, isAlwaysReadonly, isSetter, 1, <<>>)

\* the dropdown of block q, of type typeName, is opened
StackDropdownMenu(q, typeName, outputShape, isAlwaysReadonly) ==
    /\ q.ws \in wsAlive
    /\ typeName \in TypeNames
    /\ LET r == StackDropdownMenuOf(q, outputShape, isAlwaysReadonly)
       IN call' = [op |-> "stackDropdownMenu",
                   arg |-> [block |-> q, typeName |-> typeName, outputShape |-> outputShape,
                            isAlwaysReadonly |-> isAlwaysReadonly],
                   stack |-> GetAccessibleDeclarationsOf(q).result,
                   threw |-> r.threw,
                   result |-> IF r.threw THEN <<>> ELSE r.options]
    /\ UNCHANGED <<list, wsAlive, blocks, created>>

\* ------------------------------------------------------------ specifications
MainWs == AllWs[1]

\* Scope resolution in one workspace: blocks nest, queries come from the live
\* blocks and from probes at every place of the tree.
Next ==
    \/ \E i \in Ids, p \in {NoParent} \cup Ids : HostCreateBlock(MainWs, i, p, NullField)
    \/ \E entries \in SeedBatches({"PI"}) : AddInitialListValues(entries)
    \/ \E block \in DeclareArgs : Declare(block)
    \/ \E q \in LiveArgs \cup Probes(MainWs, ShallowDepths) : GetAccessibleDeclarations(q)

Spec == Init /\ [][Next]_vars

\* The bounded walk: probes at the end of chains about max_iter deep, and a
\* probe whose ancestors loop. A query changes neither the registry nor the
\* tree, so a query right after a query reaches no state the same query does
\* not reach from the state before it; those steps are left out. The registry
\* is seeded once, as the builder does.
DeepNext ==
    \/ \E i \in Ids, p \in {NoParent} \cup Ids : HostCreateBlock(MainWs, i, p, NullField)
    \/ /\ NumPrims(list) = 0
       /\ AddInitialListValues(<<Declaration(EmptyId, NoWs, "PI")>>)
    \/ \E block \in LiveObjects : Declare(block)
    \/ /\ call.op # "getAccessibleDeclarations"
       /\ \E q \in Probes(MainWs, DeepDepths) \cup {CyclicProbe(MainWs)} : GetAccessibleDeclarations(q)

SpecDeep == Init /\ [][DeepNext]_vars

\* Seeding at large: batches of addInitialListValues that hold block-backed
\* entries as well as primitives, before and after declare calls.
SeedNext ==
    \/ \E i \in Ids : HostCreateBlock(MainWs, i, NoParent, NullField)
    \/ \E entries \in Batches(PrimitiveEntries \cup BlockEntries(MainWs)) :
          /\ Len(list) + Len(entries) <= MaxBlocks + 1
          /\ AddInitialListValues(entries)
    \/ \E block \in DeclareArgs : Declare(block)

SpecSeed == Init /\ [][SeedNext]_vars

\* Several workspaces behind one registry: the declaration extension is
\* registered once for the block type, so the blocks of every workspace declare
\* into the same list, and block ids repeat from one workspace to another.
MultiNext ==
    \/ \E w \in Ws, i \in Ids, p \in {NoParent} \cup Ids : HostCreateBlock(w, i, p, NullField)
    \/ \E entries \in SeedBatches({"PI"}) : AddInitialListValues(entries)
    \/ \E block \in LiveObjects : Declare(block)
    \/ \E q \in LiveArgs \cup UNION {Probes(w, ShallowDepths) : w \in Ws} :
          GetAccessibleDeclarations(q)

SpecMulti == Init /\ [][MultiNext]_vars

\* The registry over the life of a workspace: blocks come and go, the workspace
\* may be disposed, and all four operations of the registry are called.
LifeNext ==
    \/ \E i \in Ids, p \in {NoParent} \cup Ids : HostCreateBlock(MainWs, i, p, NullField)
    \/ \E i \in Ids : HostDisposeBlock(MainWs, i)
    \/ HostDisposeWorkspace(MainWs)
    \/ \E entries \in SeedBatches({"PI"}) : AddInitialListValues(entries)
    \/ \E block \in DeclareArgs : Declare(block)
    \/ \E q \in LiveArgs \cup Probes(MainWs, {0}) : GetAccessibleDeclarations(q)
    \/ \E t \in TypeNames : GetCategoryXML(t, "default")

SpecLife == Init /\ [][LifeNext]_vars

\* Dropdown menus: declaration blocks with a readonly field, and getter and
\* setter blocks placed anywhere in the tree opening their menu. The registry
\* is seeded once, as the builder does. Opening a menu changes neither the
\* registry nor the tree, so a menu opened right after another reaches no new
\* state; those steps are left out.
DropdownNext ==
    \/ \E i \in Ids, p \in {NoParent} \cup Ids, ro \in ReadonlyValues :
          HostCreateBlock(MainWs, i, p, ro)
    \/ /\ NumPrims(list) = 0
       /\ AddInitialListValues(<<Declaration(EmptyId, NoWs, "PI")>>)
    \/ \E block \in LiveObjects : Declare(block)
    \/ /\ call.op # "stackDropdownMenu"
       /\ \E q \in Probes(MainWs, {0}), t \in TypeNames, sh \in OutputShapes, ar \in BOOLEAN :
             StackDropdownMenu(q, t, sh, ar)

SpecDropdown == Init /\ [][DropdownNext]_vars

\* Category rendering: top-level blocks with a readonly field, deleted blocks
\* and workspaces.
CategoryNext ==
    \/ \E i \in Ids, ro \in ReadonlyValues : HostCreateBlock(MainWs, i, NoParent, ro)
    \/ \E i \in Ids, ro \in ReadonlyValues : HostSetReadonly(MainWs, i, ro)
    \/ \E i \in Ids : HostDisposeBlock(MainWs, i)
    \/ HostDisposeWorkspace(MainWs)
    \/ \E entries \in SeedBatches(PrimNames) : AddInitialListValues(entries)
    \/ \E block \in LiveObjects : Declare(block)
    \/ \E t \in TypeNames, f \in Filters : GetCategoryXML(t, f)

SpecCategory == Init /\ [][CategoryNext]_vars

\* ------------------------------------------------------------------ claims
IsGet == call.op = "getAccessibleDeclarations"

\* the queried block has a parent: the shortcut for top-level blocks is not taken
HasParent(q) == GetParent(q, QueryBlock(q)) # Null

\* the levels above a block whose ancestors end: the block with its parent, the
\* parent with its own parent, ... up to the topmost ancestor with no parent
RECURSIVE LevelsFrom(_, _, _)
LevelsFrom(q, block, parent) ==
    IF parent = Null THEN <<[block |-> block, parent |-> parent]>>
    ELSE <<[block |-> block, parent |-> parent]>> \o LevelsFrom(q, parent, GetParent(q, parent))

QueryLevels(q) == LevelsFrom(q, QueryBlock(q), GetParent(q, QueryBlock(q)))

\* the sibling list of a level: the children of the parent, or the top blocks
Siblings(q, lv) == IF lv.parent # Null THEN GetChildren(q, lv.parent) ELSE GetTopBlocks(q)
SiblingIds(q, lv) == {Siblings(q, lv)[n].id : n \in 1..Len(Siblings(q, lv))}

\* where x stands in a list without repetitions (0: nowhere)
Place(sq, x) == IF \E n \in 1..Len(sq) : sq[n] = x THEN CHOOSE n \in 1..Len(sq) : sq[n] = x ELSE 0

\* what a level is to contribute: its registered siblings up to the current
\* block, all of them when the current block is not among the siblings
ExpectedLevel(q, lv) ==
    LET sib == Siblings(q, lv)
        here == Place(sib, lv.block)
        kept == SelectSeq(sib, LAMBDA b : /\ \E n \in 1..Len(list) : list[n].id = b.id
                                          /\ (here = 0 \/ Place(sib, b) <= here))
    IN [n \in 1..Len(kept) |-> [id |-> kept[n].id, wid |-> q.ws, name |-> Undefined]]

\* the README's example: children [A(decl), B(decl), C(non-decl), D(decl)]
ExampleList == <<Declaration("a", MainWs, Undefined), Declaration("b", MainWs, Undefined),
                 Declaration("d", MainWs, Undefined)>>
ExampleChildren == <<Real("a"), Real("b"), Real("c"), Real("d")>>

\* C1: at each level of the ancestor walk the entries contributed are exactly the
\* siblings that are registered and stand at or before the current block, in
\* sibling order; when the current block is not among the siblings, all the
\* registered siblings. From D of [A, B, C, D] that is [A, B, D], from C [A, B].
C1_LevelContributions ==
    /\ (IsGet /\ HasParent(call.arg) /\ call.iter < max_iter) =>
          LET q == call.arg
              lvs == QueryLevels(q)
          IN /\ \A k \in 1..Len(lvs) :
                    SelectSeq(call.result, LAMBDA e : e.id \in SiblingIds(q, lvs[k]))
                        = ExpectedLevel(q, lvs[k])
             /\ \A n \in 1..Len(call.result) :
                    \E k \in 1..Len(lvs) : call.result[n].id \in SiblingIds(q, lvs[k])
    /\ LevelVars(ExampleList, MainWs, ExampleChildren, Real("d")) = ExampleList
    /\ LevelVars(ExampleList, MainWs, ExampleChildren, Real("c")) = SubSeq(ExampleList, 1, 2)
    /\ LevelVars(ExampleList, MainWs, ExampleChildren, Real("e")) = ExampleList

\* a query from a block with a registered sibling before it and another after it
C1_Witness ==
    /\ IsGet /\ HasParent(call.arg) /\ call.iter < max_iter
    /\ \E k \in 1..Len(QueryLevels(call.arg)) :
          LET lv == QueryLevels(call.arg)[k]
              sib == Siblings(call.arg, lv)
              here == Place(sib, lv.block)
          IN /\ here > 1
             /\ here < Len(sib)
             /\ ListHasId(list, sib[here - 1].id)
             /\ ListHasId(list, sib[here + 1].id)

\* C2: from a block with no parent the whole registry comes back, in registry
\* order, whatever the top-level blocks are
C2_TopLevelWholeRegistry ==
    (IsGet /\ ~HasParent(call.arg)) => call.result = list

\* a query from a top-level block that stands before a declared top-level block,
\* with a primitive in the registry
C2_Witness ==
    /\ IsGet /\ ~HasParent(call.arg)
    /\ call.arg.kind = "block"
    /\ \E n \in 1..Len(list) : list[n].id = EmptyId
    /\ \E n \in 1..Len(list) :
          /\ list[n].id \in LiveIn(call.arg.ws)
          /\ ParentId(call.arg.ws, list[n].id) = NoParent
          /\ Pos(list[n].id) > Pos(call.arg.id)

PI == Declaration(EmptyId, NoWs, "PI")

\* C3: primitives seeded with addInitialListValues are visible from a nested
\* block too: with the registry [PI, b1], a query from a block that has a parent
\* and is preceded by b1 in its statement sequence returns [PI, b1]
C3_PrimitivesVisibleWhenNested ==
    (/\ IsGet /\ HasParent(call.arg)
     /\ Len(list) = 2 /\ list[1] = PI /\ list[2].id # EmptyId
     /\ LET lv == QueryLevels(call.arg)[1]
            sib == Siblings(call.arg, lv)
        IN /\ Place(sib, lv.block) > 1
           /\ \E n \in 1..(Place(sib, lv.block) - 1) : sib[n].id = list[2].id)
    => call.result = list

\* the level a registered block belongs to, counted from the queried block
LevelOf(q, i) ==
    CHOOSE k \in 1..Len(QueryLevels(q)) : i \in SiblingIds(q, QueryLevels(q)[k])

PlaceInLevel(q, i) ==
    LET sib == Siblings(q, QueryLevels(q)[LevelOf(q, i)])
    IN CHOOSE n \in 1..Len(sib) : sib[n].id = i

\* C4: in the list returned for a block with a parent (no fallback), what an inner
\* level contributes precedes what any outer level contributes, the last level
\* being the top blocks of the workspace; within a level the order is the
\* sibling order
C4_InnerBeforeOuter ==
    (IsGet /\ HasParent(call.arg) /\ call.iter < max_iter) =>
        LET q == call.arg
            r == call.result
            lvs == QueryLevels(q)
        IN /\ lvs[Len(lvs)].parent = Null
           /\ \A n \in 1..Len(r) : \E k \in 1..Len(lvs) : r[n].id \in SiblingIds(q, lvs[k])
           /\ \A m, n \in 1..Len(r) :
                 m < n =>
                    \/ LevelOf(q, r[m].id) < LevelOf(q, r[n].id)
                    \/ /\ LevelOf(q, r[m].id) = LevelOf(q, r[n].id)
                       /\ PlaceInLevel(q, r[m].id) < PlaceInLevel(q, r[n].id)

\* a result that holds a declaration of an inner level and one of the top level
C4_Witness ==
    /\ IsGet /\ HasParent(call.arg) /\ call.iter < max_iter
    /\ \E m, n \in 1..Len(call.result) :
          /\ LevelOf(call.arg, call.result[m].id) = 1
          /\ LevelOf(call.arg, call.result[n].id) = Len(QueryLevels(call.arg))
          /\ Len(QueryLevels(call.arg)) > 1

IsDeclare == call.op = "declare"

\* the block handed to declare passes its guards: not null, not in a flyout, and
\* it has a workspace
Eligible(block) == ~block.isNull /\ ~block.isInFlyout /\ block.workspace # NoWs

EntriesWithId(l, i) == Cardinality({n \in 1..Len(l) : l[n].id = i})

IsSeed == call.op = "addInitialListValues"

\* no two entries of l share the same non-empty id
UniqueIds(l) ==
    \A m, n \in 1..Len(l) : (m # n /\ l[m].id # EmptyId) => l[m].id # l[n].id

OnlyPrimitives(entries) == \A n \in 1..Len(entries) : entries[n].id = EmptyId

\* C6 as the claim states it: in every reachable state, after any sequence of
\* addInitialListValues and declare calls, no two entries of the registry share
\* the same non-empty id
C6_UniqueIds == UniqueIds(list)

\* C6 as the code has it: a declare call keeps the non-empty ids of the
\* registry distinct, and so does an addInitialListValues call whose batch holds
\* only primitives (id empty); a batch that holds block-backed entries is
\* appended unvalidated
C6_UniqueIdsKept ==
    /\ (IsDeclare /\ UniqueIds(call.before)) => UniqueIds(list)
    /\ (IsSeed /\ UniqueIds(call.before) /\ OnlyPrimitives(call.arg)) => UniqueIds(list)

\* declare was called for a block whose identifier a seed had entered, in a
\* registry that holds a primitive and another block
C6_Witness ==
    /\ IsDeclare /\ Eligible(call.arg)
    /\ UniqueIds(call.before)
    /\ ListHasId(call.before, call.arg.id)
    /\ ListHasId(call.before, EmptyId)
    /\ \E n \in 1..Len(list) : list[n].id \notin {EmptyId, call.arg.id}

\* how many ancestors a live block has
RECURSIVE RealDepth(_, _)
RealDepth(w, i) == IF ParentId(w, i) = NoParent THEN 0 ELSE 1 + RealDepth(w, ParentId(w, i))

\* how many ancestors the queried block has (its chain does not loop)
AncestorCount(q) ==
    IF q.kind = "block" THEN RealDepth(q.ws, q.id)
    ELSE q.depth + (IF q.under = NoParent THEN 0 ELSE 1 + RealDepth(q.ws, q.under))

Loops(q) == q.kind = "probe" /\ q.depth = Cyclic

\* C7: getAccessibleDeclarations always ends: the walk makes at most max_iter
\* passes, and when the ancestors of the queried block are more than max_iter or
\* loop, the call returns the whole registry instead of a scoped result
C7_DepthBoundFallback ==
    IsGet =>
        /\ call.iter <= max_iter
        /\ (Loops(call.arg) \/ AncestorCount(call.arg) > max_iter) =>
              (call.iter = max_iter /\ call.result = list)

\* a query from max_iter + 1 levels deep, below a declared block, with a
\* primitive in the registry
C7_Witness ==
    /\ IsGet /\ ~Loops(call.arg)
    /\ AncestorCount(call.arg) = max_iter + 1
    /\ call.arg.under # NoParent
    /\ ListHasId(list, call.arg.under)
    /\ ListHasId(list, EmptyId)

IsCategory == call.op = "getCategoryXML"

\* the templates of the primitive entries of the registry, in registry order
PrimitiveTemplates(t) ==
    LET prims == SelectSeq(list, LAMBDA e : e.id = EmptyId /\ e.name \notin {"", Undefined})
    IN [n \in 1..Len(prims) |-> [type |-> t, name |-> prims[n].name]]

\* the templates of a result that name no block: those of the primitives
NotOfBlocks(r) == SelectSeq(r, LAMBDA x : x.name \notin Ids)

\* C8: getCategoryXML emits one template of the asked type for every primitive
\* entry (id empty, name X), named X, under every filter, the one that rejects
\* everything included
C8_PrimitivesAlwaysEmitted ==
    IsCategory => NotOfBlocks(call.result) = PrimitiveTemplates(call.arg.typeName)

\* the same of the calls that return
C8_WhenReturns ==
    (IsCategory /\ ~call.threw) => NotOfBlocks(call.result) = PrimitiveTemplates(call.arg.typeName)

\* the templates the setter call is to emit: the block-backed entries whose block
\* exists and has readonly = 'FALSE', in registry order
WritableTemplates(t) ==
    LET ok == SelectSeq(list, LAMBDA e : /\ e.id # EmptyId
                                         /\ <<e.wid, e.id>> \in Live
                                         /\ blocks[<<e.wid, e.id>>].readonly = "FALSE")
    IN [n \in 1..Len(ok) |-> [type |-> t, name |-> ok[n].id]]

OfBlocks(r) == SelectSeq(r, LAMBDA x : x.name \in Ids)

IsSetterCall ==
    IsCategory /\ call.arg.typeName = TYPE_NAME_SETTER_ /\ call.arg.filter = "writable"

\* C9: the setter call with the filter readonly = 'FALSE' emits a template for a
\* block-backed entry exactly when its block exists and its readonly field is
\* 'FALSE', in registry order
C9_SetterTemplatesWritable ==
    IsSetterCall => OfBlocks(call.result) = WritableTemplates(TYPE_NAME_SETTER_)

\* the same of the calls that return
C9_WhenReturns ==
    (IsSetterCall /\ ~call.threw) => OfBlocks(call.result) = WritableTemplates(TYPE_NAME_SETTER_)

\* C10: declare of a null block, of a block in a flyout or of a block with no
\* workspace leaves the registry as it was, so no entry of the registry belongs
\* to a block of the flyout
C10_DeclareIgnoresInvalid ==
    /\ (IsDeclare /\ ~Eligible(call.arg)) => list = call.before
    /\ \A n \in 1..Len(list) : list[n].wid # FlyoutWs

\* declare was called for a flyout block whose identifier the registry does
\* not hold
C10_Witness ==
    /\ IsDeclare
    /\ call.arg.isInFlyout
    /\ ~ListHasId(call.before, call.arg.id)
    /\ Len(list) > 0

\* C11: no operation of the registry raises an error: getCategoryXML completes
\* in every registry state and every host state, also when the workspace of an
\* entry is gone, when the block of an entry was deleted, and when a primitive
\* entry has an empty or missing name
C11_NeverRaises == IsCategory => ~call.threw

\* C12: declarations are scoped within one container: every block-backed
\* declaration that getAccessibleDeclarations(block) returns has the wid of the
\* workspace of the queried block, also when the registry holds declarations of
\* blocks of several workspaces
C12_ScopedToOwnWorkspace ==
    IsGet =>
        \A n \in 1..Len(call.result) :
            call.result[n].id # EmptyId => call.result[n].wid = call.arg.ws

\* C13: after declare(block) of an eligible block the registry holds an entry
\* whose id is block.id and whose wid is the id of the block's workspace, also
\* when a block of another workspace with the same identifier was declared
\* before
C13_DeclareRecordsOwnWorkspace ==
    (IsDeclare /\ Eligible(call.arg)) =>
        \E n \in 1..Len(list) :
            list[n].id = call.arg.id /\ list[n].wid = call.arg.workspace

\* the topmost block of the queried block's own chain: the block itself, or the
\* last of the single-child blocks a probe hangs from
ChainTop(q) == IF q.kind = "probe" THEN Chain(q.depth) ELSE Real(q.id)

\* what the levels from (block, parent) upward are to contribute, inner first
RECURSIVE ScopedFrom(_, _, _)
ScopedFrom(q, block, parent) ==
    ExpectedLevel(q, [block |-> block, parent |-> parent])
        \o (IF parent = Null THEN <<>> ELSE ScopedFrom(q, parent, GetParent(q, parent)))

\* the scoped result of a query whose ancestors end: the single-child levels of
\* a probe's chain hold no declaration, the levels from the chain's top upward
\* contribute as every level does
ScopedResult(q) == ScopedFrom(q, ChainTop(q), GetParent(q, ChainTop(q)))

\* C14: the fallback to the whole registry is taken only above the bound: for a
\* block with N ancestors that end, 1 <= N <= max_iter, getAccessibleDeclarations
\* returns the scoped result of the walk, not the whole registry
C14_ScopedUpToBound ==
    (IsGet /\ ~Loops(call.arg)
           /\ AncestorCount(call.arg) >= 1 /\ AncestorCount(call.arg) <= max_iter) =>
        call.result = ScopedResult(call.arg)

\* the same of the blocks with fewer than max_iter ancestors
C14_BelowBound ==
    (IsGet /\ ~Loops(call.arg)
           /\ AncestorCount(call.arg) >= 1 /\ AncestorCount(call.arg) < max_iter) =>
        call.result = ScopedResult(call.arg)

IsPrefix(s, t) == Len(s) <= Len(t) /\ SubSeq(t, 1, Len(s)) = s

IsQuery(c) == c.op \in {"getAccessibleDeclarations", "getCategoryXML"}

IsDropdown == call.op = "stackDropdownMenu"

\* the ids the options of a menu stand for, in menu order
OfferedIds(options) ==
    LET opts == SelectSeq(options, LAMBDA o : o.value \in Ids)
    IN [n \in 1..Len(opts) |-> opts[n].value]

\* the ids of the block-backed entries of a stack whose block exists
ExistingIds(stack) ==
    LET es == SelectSeq(stack, LAMBDA e : e.id # EmptyId /\ <<e.wid, e.id>> \in Live)
    IN [n \in 1..Len(es) |-> es[n].id]

\* of these, the ids of the blocks that are not read-only: readonly = 'FALSE',
\* as the setter templates of the category have it
WritableIds(stack) ==
    LET es == SelectSeq(stack, LAMBDA e : /\ e.id # EmptyId
                                          /\ <<e.wid, e.id>> \in Live
                                          /\ blocks[<<e.wid, e.id>>].readonly = "FALSE")
    IN [n \in 1..Len(es) |-> es[n].id]

\* C16: the dropdown of a setter block of a family that is not always-readonly
\* offers a block-backed declaration only if its readonly field is 'FALSE', the
\* same declarations as the setter templates of the category; the dropdown of a
\* getter block offers every accessible declaration whose block exists
C16_SetterDropdownWritableOnly ==
    IsDropdown =>
        /\ (call.arg.typeName = TYPE_NAME_SETTER_ /\ ~call.arg.isAlwaysReadonly) =>
              OfferedIds(call.result) = WritableIds(call.stack)
        /\ call.arg.typeName = TYPE_NAME_GETTER_ =>
              OfferedIds(call.result) = ExistingIds(call.stack)

\* the part of C16 that speaks of setter blocks, when the host reports an
\* output shape for them
C16_SetterWithShape ==
    (IsDropdown /\ call.arg.typeName = TYPE_NAME_SETTER_ /\ ~call.arg.isAlwaysReadonly
                /\ call.arg.outputShape # NullShape) =>
        OfferedIds(call.result) = WritableIds(call.stack)

\* and when it reports none
C16_SetterWithoutShape ==
    (IsDropdown /\ call.arg.typeName = TYPE_NAME_SETTER_ /\ ~call.arg.isAlwaysReadonly
                /\ call.arg.outputShape = NullShape) =>
        OfferedIds(call.result) = WritableIds(call.stack)

====
